---- MODULE Spec2Model ----
(***************************************************************************)
(* A model of code-chopper: the boundary-aware CST chunking engine         *)
(* (cst-operations.ts, language-node-types.ts), the parser factory         *)
(* (parser-factory.ts) and the directory scan (io/file-operations.ts).     *)
(*                                                                         *)
(* A syntax tree is a sequence of nodes in pre-order.  Its shape is a      *)
(* sequence of records [type, parent, gap]: every leaf is one character of *)
(* the source (the character is the leaf's own index, so that two slices   *)
(* of the source are equal only when they are the same range), followed by *)
(* `gap' newline characters (the character 0).  Parsing gives the nodes    *)
(* their offsets, rows and texts, computed from the source so built.       *)
(***************************************************************************)
EXTENDS Integers, Sequences, FiniteSets, TLC

VARIABLES
  \* one call of parseCodeAndChunk
  language, code, tree, pc, stack, target, visited, boundaries, emitted, filterCalls,
  accepted, chunks,
  \* one call of chunkWithFallback
  cwf,
  \* one parser factory and the calls of createParser on it
  grammar, parsers, calls, created, exited,
  \* one call of readDirectoryAndChunk
  fsys, scan

travVars ==
  <<language, code, tree, pc, stack, target, visited, boundaries, emitted, filterCalls,
    accepted, chunks, cwf>>

factoryVars == <<grammar, parsers, calls, created, exited>>

dirVars == <<fsys, scan>>

vars == <<travVars, factoryVars, dirVars>>

\* Bounds of the model: the number of nodes of a syntax tree (DeepNodes for the
\* language whose trees nest two named containers), and the number of rows from
\* a comment to the token after it.
MaxNodes == 6
DeepNodes == 8
MaxGap == 2

\* The number of nodes of a Go syntax tree, whose tokens are nodes too.
GoNodes == 15

\* The number of calls of createParser on one factory.
MaxCalls == 3

\* The number of entries under the scanned directory, and of chunks of a file.
MaxEntries == 3
MaxChunks == 2

\* The languages whose trees are modelled: one of each documentation family.
Languages == {"typescript", "java", "python", "bash"}

NewLine == 0

Undefined == <<>>

-----------------------------------------------------------------------------
(* LANGUAGE_NODE_TYPES, restricted to the node types the modelled trees use *)

LANGUAGE_NODE_TYPES(lang) ==
  CASE lang = "typescript" ->
         [functions |-> {"function_declaration", "function_expression"},
          classes   |-> {"class_declaration"},
          methods   |-> {"method_definition"}]
    [] lang = "python" ->
         [functions |-> {"function_definition"},
          classes   |-> {"class_definition"},
          methods   |-> {"function_definition"}]
    [] lang = "java" ->
         [functions |-> {"method_declaration"},
          classes   |-> {"class_declaration"},
          interfaces |-> {"interface_declaration"}]
    [] lang = "bash" ->
         [functions |-> {"function_definition"},
          commands  |-> {"command"}]
    [] lang = "go" ->
         [functions |-> {"function_declaration"},
          methods   |-> {"method_declaration"},
          types     |-> {"type_declaration"},
          imports   |-> {"import_declaration"},
          variables |-> {"var_spec", "const_spec", "short_var_declaration"}]

createBoundaryNodeTypes(lang) ==
  LET langConfig == LANGUAGE_NODE_TYPES(lang)
  IN  UNION {langConfig[c] : c \in DOMAIN langConfig}

-----------------------------------------------------------------------------
(* The syntax trees a parser can produce                                   *)

\* The node types a node of the given type can have as children.
ChildTypes(lang, type) ==
  CASE lang = "typescript" ->
         (CASE type = "program" -> {"comment", "export_statement", "function_declaration"}
            [] type = "export_statement" -> {"comment", "function_declaration"}
            [] type = "function_declaration" -> {"identifier"}
            [] OTHER -> {})
    [] lang = "java" ->
         (CASE type = "program" -> {"class_declaration"}
            [] type = "class_declaration" -> {"identifier", "class_body"}
            [] type = "class_body" -> {"line_comment", "class_declaration", "method_declaration"}
            [] OTHER -> {})
    [] lang = "python" ->
         (CASE type = "module" -> {"function_definition", "expression_statement"}
            [] type = "function_definition" -> {"identifier", "block"}
            [] type = "block" -> {"expression_statement", "function_definition"}
            [] type = "expression_statement" -> {"string"}
            [] OTHER -> {})
    [] lang = "bash" ->
         (CASE type = "program" -> {"comment", "function_definition", "command"}
            [] type = "function_definition" -> {"word", "compound_statement"}
            [] type = "compound_statement" -> {"command"}
            [] OTHER -> {})
    [] lang = "go" ->
         (CASE type = "source_file" ->
                 {"function_declaration", "type_declaration", "short_var_declaration"}
            [] type = "function_declaration" -> {"identifier"}
            [] type = "type_declaration" -> {"type", "type_spec"}
            [] type = "type_spec" -> {"type_identifier"}
            [] type = "short_var_declaration" -> {"expression_list", ":="}
            [] type = "expression_list" ->
                 {"identifier", "selector_expression", "int_literal", ","}
            [] type = "selector_expression" -> {"identifier", ".", "field_identifier"}
            [] OTHER -> {})

RootType(lang) ==
  CASE lang = "python" -> "module"
    [] lang = "go" -> "source_file"
    [] OTHER -> "program"

\* Names come first, bodies come last, and both occur at most once.
NameTypes == {"identifier", "property_identifier", "word"}
BodyTypes == {"class_body", "statement_block", "block", "compound_statement"}
DeclarationTypes == {"class_declaration", "function_declaration"}

Nodes(t) == 1..Len(t)

Children(t, n) == {c \in Nodes(t) : t[c].parent = n}

RECURSIVE Ancestors(_, _)
Ancestors(t, n) ==
  IF t[n].parent = 0 THEN {} ELSE {t[n].parent} \cup Ancestors(t, t[n].parent)

\* Has the Go node all the children of its rule?
GoNodeComplete(t, n) ==
  LET count == Cardinality(Children(t, n))
  IN  CASE t[n].type = "type_declaration" -> count = 2
        [] t[n].type \in {"type_spec", "function_declaration"} -> count = 1
        [] t[n].type \in {"short_var_declaration", "selector_expression"} -> count = 3
        [] t[n].type = "expression_list" -> count % 2 = 1
        [] OTHER -> TRUE

\* The children of a Go node come in the order of its rule, tokens included:
\* `type' type_spec; left `:=' right, with operands on the left and literals on
\* the right; the items of a list with commas between them; operand `.' field.
GoChildAllowed(t, p, k) ==
  LET count == Cardinality(Children(t, p))
      type == t[p].type
      isRight == \E c \in Children(t, t[p].parent) : c < p /\ t[c].type = ":="
      open == {d \in {Len(t)} \cup Ancestors(t, Len(t)) : p \in Ancestors(t, d)}
  IN  /\ \A d \in open : GoNodeComplete(t, d)
      /\ CASE type = "type_declaration" -> k = (IF count = 0 THEN "type" ELSE "type_spec") /\ count < 2
        [] type = "type_spec" -> count = 0
        [] type = "function_declaration" -> count = 0
        [] type = "short_var_declaration" ->
             count < 3 /\ k = (IF count = 1 THEN ":=" ELSE "expression_list")
        [] type = "expression_list" ->
             IF count % 2 = 1 THEN k = ","
             ELSE IF isRight THEN k = "int_literal"
             ELSE k \in {"identifier", "selector_expression"}
        [] type = "selector_expression" ->
             count < 3 /\ k = (CASE count = 0 -> "identifier"
                                 [] count = 1 -> "."
                                 [] OTHER -> "field_identifier")
        [] OTHER -> TRUE

\* May a node of type k be added as the next (last) child of node p?
ChildAllowed(lang, t, p, k) ==
  /\ k \in ChildTypes(lang, t[p].type)
  /\ IF lang = "go" THEN GoChildAllowed(t, p, k)
     ELSE /\ k \in NameTypes => Children(t, p) = {}
          /\ \A c \in Children(t, p) : t[c].type \notin BodyTypes
          /\ t[p].type = "export_statement" =>
               \A c \in Children(t, p) : t[c].type \notin DeclarationTypes
          /\ t[p].type = "expression_statement" => Children(t, p) = {}

IsComment(type) == type \in {"comment", "line_comment"}

Gaps(k) == IF IsComment(k) THEN 1..MaxGap ELSE {0}

\* Every tree got from t by adding one node, in pre-order.
Extend(lang, t) ==
  LET path == {Len(t)} \cup Ancestors(t, Len(t))
  IN  UNION { UNION { { Append(t, [type |-> k, parent |-> p, gap |-> g]) : g \in Gaps(k) } :
                        k \in {k2 \in ChildTypes(lang, t[p].type) : ChildAllowed(lang, t, p, k2)} } :
                p \in path }

RECURSIVE TreesOfSize(_, _)
TreesOfSize(lang, n) ==
  IF n = 1 THEN {<<[type |-> RootType(lang), parent |-> 0, gap |-> 0]>>}
  ELSE UNION {Extend(lang, t) : t \in TreesOfSize(lang, n - 1)}

NodesBound(lang) ==
  CASE lang = "java" -> DeepNodes
    [] lang = "go" -> GoNodes
    [] OTHER -> MaxNodes

\* Is every node of the Go tree complete?
GoComplete(t) == \A n \in Nodes(t) : GoNodeComplete(t, n)

Trees(lang) ==
  LET all == UNION {TreesOfSize(lang, n) : n \in 1..NodesBound(lang)}
  IN  IF lang = "go" THEN {t \in all : GoComplete(t)} ELSE all

-----------------------------------------------------------------------------
(* SyntaxNode: what the traversal reads of a node (0 is the null node)     *)

Max(S) == CHOOSE x \in S : \A y \in S : y <= x
Min(S) == CHOOSE x \in S : \A y \in S : x <= y

Descendants(t, n) == {m \in Nodes(t) : n \in Ancestors(t, m)}

RECURSIVE Ascending(_)
Ascending(S) == IF S = {} THEN <<>> ELSE <<Min(S)>> \o Ascending(S \ {Min(S)})

\* node.children, in order
ChildSeq(t, n) == Ascending(Children(t, n))

firstChild(t, n) == IF n = 0 \/ Children(t, n) = {} THEN 0 ELSE Min(Children(t, n))

lastChild(t, n) == IF n = 0 \/ Children(t, n) = {} THEN 0 ELSE Max(Children(t, n))

parentOf(t, n) == IF n = 0 THEN 0 ELSE t[n].parent

previousSibling(t, n) ==
  LET before == IF n = 0 THEN {} ELSE {c \in Children(t, t[n].parent) : c < n}
  IN  IF before = {} THEN 0 ELSE Max(before)

\* The text a leaf contributes to the source: its character and its newlines.
LeafText(t, n) == <<n>> \o [j \in 1..t[n].gap |-> NewLine]

RECURSIVE SourceUpTo(_, _)
SourceUpTo(t, n) ==
  IF n = 0 THEN <<>>
  ELSE SourceUpTo(t, n - 1) \o (IF Children(t, n) = {} THEN LeafText(t, n) ELSE <<>>)

Source(t) == SourceUpTo(t, Len(t))

Slice(src, from, to) == SubSeq(src, from + 1, to)

\* parser.parse(code).rootNode: the nodes of the shape t with their positions in
\* the source.  A node starts at its first leaf and ends after its last one.
ParseTree(t) ==
  [n \in 1..Len(t) |->
     LET src   == Source(t)
         start == Len(SourceUpTo(t, n - 1))
         end   == Len(SourceUpTo(t, Max({n} \cup Descendants(t, n)) - 1)) + 1
     IN  [type       |-> t[n].type,
          parent     |-> t[n].parent,
          startIndex |-> start,
          endIndex   |-> end,
          row        |-> Cardinality({i \in 1..start : src[i] = NewLine}),
          text       |-> Slice(src, start, end)]]

text(t, n) == t[n].text

\* The grammars give the field "name" to the name-typed child of a declaration;
\* the items of a list and the operand of a selector are in no such field.
childForFieldName(t, n, field) ==
  LET named == {c \in Children(t, n) :
                  /\ field = "name"
                  /\ t[c].type \in NameTypes
                  /\ t[n].type \notin {"expression_list", "selector_expression"}}
  IN  IF n = 0 \/ named = {} THEN 0 ELSE Min(named)

\* type.includes("comment")
IncludesComment(type) == IsComment(type)

-----------------------------------------------------------------------------
(* createNodeNameExtractor                                                 *)

FirstOfType(t, n, type) ==
  LET found == {c \in Children(t, n) : t[c].type = type}
  IN  IF found = {} THEN 0 ELSE Min(found)

TextOrUndefined(t, n) == IF n = 0 THEN Undefined ELSE text(t, n)

\* The condition of the while loop of the Go case and of the move it makes: the
\* target has children, none of them an identifier, and so a first child.
Descends_SingleChild(t, at) ==
  /\ Cardinality(Children(t, at)) = 1
  /\ FirstOfType(t, at, "identifier") = 0

Descends(t, at) ==
  /\ Children(t, at) # {}
  /\ FirstOfType(t, at, "identifier") = 0
  /\ firstChild(t, at) # 0

\* The target the loop ends with, started from node `at'.
RECURSIVE GoTarget(_, _)
GoTarget(t, at) ==
  IF Descends(t, at) THEN GoTarget(t, firstChild(t, at)) ELSE at

\* What the Go case and the fallback after it give once the loop has ended:
\* the first identifier child of the target, or else of the node.
NameAfterLoop(t, n, at) ==
  IF FirstOfType(t, at, "identifier") # 0
    THEN text(t, FirstOfType(t, at, "identifier"))
  ELSE TextOrUndefined(t, FirstOfType(t, n, "identifier"))

\* The language-specific part of the name extraction (the switch).
LanguageSpecificName(lang, t, n) ==
  CASE lang \in {"javascript", "typescript"} ->
         IF t[n].type = "arrow_function" /\ childForFieldName(t, parentOf(t, n), "name") # 0
           THEN text(t, childForFieldName(t, parentOf(t, n), "name"))
         ELSE IF /\ t[n].type \in {"variable_declaration", "lexical_declaration"}
                 /\ childForFieldName(t, FirstOfType(t, n, "variable_declarator"), "name") # 0
           THEN text(t, childForFieldName(t, FirstOfType(t, n, "variable_declarator"), "name"))
         ELSE IF t[n].type = "method_definition"
           THEN TextOrUndefined(t, childForFieldName(t, n, "key"))
         ELSE Undefined
    [] lang \in {"rust", "java", "csharp"} ->
         IF t[n].type \in {"function_item", "method_declaration"}
           THEN TextOrUndefined(t, childForFieldName(t, n, "name"))
           ELSE Undefined
    [] lang = "go" ->
         IF t[n].type = "method_declaration" /\ childForFieldName(t, n, "name") # 0
           THEN text(t, childForFieldName(t, n, "name"))
         ELSE NameAfterLoop(t, n, GoTarget(t, n))
    [] OTHER -> Undefined

extractName(lang, t, n) ==
  IF childForFieldName(t, n, "name") # 0
    THEN text(t, childForFieldName(t, n, "name"))
  ELSE IF LanguageSpecificName(lang, t, n) # Undefined
    THEN LanguageSpecificName(lang, t, n)
  ELSE TextOrUndefined(t, FirstOfType(t, n, "identifier"))

-----------------------------------------------------------------------------
(* createDocsExtracor                                                      *)

NoDocs == [hasDocs |-> FALSE, text |-> <<>>, startIndex |-> 0, endIndex |-> 0]

RECURSIVE DocRun_IgnoreRows(_, _, _)
DocRun_IgnoreRows(t, doc_candidate_start, comment_text) ==
  LET prev == previousSibling(t, doc_candidate_start)
  IN  IF /\ doc_candidate_start # 0
         /\ prev # 0
         /\ IncludesComment(t[prev].type)
        THEN DocRun_IgnoreRows(t, prev,
                               text(t, doc_candidate_start) \o <<NewLine>> \o comment_text)
        ELSE [start |-> doc_candidate_start,
              text  |-> IF doc_candidate_start # 0
                          THEN text(t, doc_candidate_start) \o <<NewLine>> \o comment_text
                          ELSE comment_text]

\* The while loop of extractOuterDocComment: from the candidate back over the
\* comments that start one row above the node last taken.
RECURSIVE DocRun(_, _, _)
DocRun(t, doc_candidate_start, comment_text) ==
  LET prev == previousSibling(t, doc_candidate_start)
  IN  IF /\ doc_candidate_start # 0
         /\ prev # 0
         /\ IncludesComment(t[prev].type)
         /\ t[doc_candidate_start].row - t[prev].row = 1
        THEN DocRun(t, prev, text(t, doc_candidate_start) \o <<NewLine>> \o comment_text)
        ELSE [start |-> doc_candidate_start,
              text  |-> IF doc_candidate_start # 0
                          THEN text(t, doc_candidate_start) \o <<NewLine>> \o comment_text
                          ELSE comment_text]

RECURSIVE DocCandidate_NearestComment(_, _, _)
DocCandidate_NearestComment(lang, t, n) ==
  LET prev == previousSibling(t, n)
  IN  IF prev = 0 \/ IncludesComment(t[prev].type) THEN prev
      ELSE DocCandidate_NearestComment(lang, t, prev)

DocCandidate_OwnSibling(lang, t, n) == previousSibling(t, n)

\* doc_candidate: the sibling before the node, or before its export_statement.
DocCandidate(lang, t, n) ==
  IF lang \in {"javascript", "typescript"} /\ parentOf(t, n) # 0
       /\ t[parentOf(t, n)].type = "export_statement"
    THEN previousSibling(t, parentOf(t, n))
    ELSE previousSibling(t, n)

extractOuterDocComment_OneTooFar(lang, t, n) ==
  LET doc_candidate == DocCandidate(lang, t, n)
      run == DocRun(t, doc_candidate, <<>>)
      first == IF previousSibling(t, run.start) # 0 THEN previousSibling(t, run.start)
               ELSE run.start
  IN  IF doc_candidate # 0 /\ run.start # 0 /\ IncludesComment(t[doc_candidate].type)
        THEN [hasDocs |-> TRUE, text |-> run.text,
              startIndex |-> t[first].startIndex,
              endIndex |-> t[doc_candidate].endIndex]
        ELSE NoDocs

extractOuterDocComment(lang, t, n) ==
  LET doc_candidate == DocCandidate(lang, t, n)
      run == DocRun(t, doc_candidate, <<>>)
  IN  IF doc_candidate # 0 /\ run.start # 0 /\ IncludesComment(t[doc_candidate].type)
        THEN [hasDocs |-> TRUE, text |-> run.text,
              startIndex |-> t[run.start].startIndex,
              endIndex |-> t[doc_candidate].endIndex]
        ELSE NoDocs

extractPyDocComment(t, n) ==
  LET doc_candidate == firstChild(t, firstChild(t, lastChild(t, n)))
  IN  IF doc_candidate # 0 /\ t[doc_candidate].type = "string"
        THEN [hasDocs |-> TRUE, text |-> text(t, doc_candidate),
              startIndex |-> t[doc_candidate].startIndex,
              endIndex |-> t[doc_candidate].endIndex]
        ELSE NoDocs

extractDocs(lang, t, n) ==
  CASE lang \in {"javascript", "typescript", "rust", "java", "ruby", "c", "cpp", "go", "csharp"} ->
         extractOuterDocComment(lang, t, n)
    [] lang = "python" -> extractPyDocComment(t, n)
    [] OTHER -> NoDocs

-----------------------------------------------------------------------------
(* createNodeTraverser, createCSTOperations                                *)

isBoundary(lang, nodeType) == nodeType \in createBoundaryNodeTypes(lang)

BoundaryOf_Swapped(t, n, parentInfo, name, docs) ==
  [type       |-> t[n].type,
   parentInfo |-> parentInfo,
   name       |-> name,
   startIndex |-> t[n].endIndex,
   endIndex   |-> IF docs.hasDocs THEN docs.startIndex ELSE t[n].startIndex,
   text       |-> text(t, n),
   docsText   |-> IF docs.hasDocs THEN docs.text ELSE <<>>]

\* The record visit pushes for an accepted node.
BoundaryOf(t, n, parentInfo, name, docs) ==
  [type       |-> t[n].type,
   parentInfo |-> parentInfo,
   name       |-> name,
   startIndex |-> IF docs.hasDocs THEN docs.startIndex ELSE t[n].startIndex,
   endIndex   |-> t[n].endIndex,
   text       |-> text(t, n),
   docsText   |-> IF docs.hasDocs THEN docs.text ELSE <<>>]

push_PerCategory(bs, lang, record) ==
  LET langConfig == LANGUAGE_NODE_TYPES(lang)
      listing == {c \in DOMAIN langConfig : record.type \in langConfig[c]}
  IN  bs \o [i \in 1..Cardinality(listing) |-> record]

\* boundaries.push(record): one record for the node, whatever the number of
\* categories of the language that list its type.
push(bs, lang, record) == Append(bs, record)

ChildParentInfo_AlwaysAppends(parentInfo, name, isAccepted) ==
  IF isAccepted THEN Append(parentInfo, name) ELSE parentInfo

ChildParentInfo_Unfiltered(parentInfo, name, isAccepted) ==
  IF name # Undefined THEN Append(parentInfo, name) ELSE parentInfo

\* The chain visit hands to the children: extended inside the if, by a name.
ChildParentInfo(parentInfo, name, isAccepted) ==
  IF isAccepted /\ name # Undefined THEN Append(parentInfo, name) ELSE parentInfo

ChildVisits_FirstOnly(t, n, isRejected, parentInfo) ==
  [i \in 1..Min({1, Cardinality(Children(t, n))}) |->
     [node |-> ChildSeq(t, n)[i], parentInfo |-> parentInfo]]

ChildVisits_Reversed(t, n, isRejected, parentInfo) ==
  [i \in 1..Cardinality(Children(t, n)) |->
     [node |-> ChildSeq(t, n)[Cardinality(Children(t, n)) + 1 - i],
      parentInfo |-> parentInfo]]

ChildVisits_SkipRejected(t, n, isRejected, parentInfo) ==
  IF isRejected THEN <<>>
  ELSE [i \in 1..Cardinality(Children(t, n)) |->
          [node |-> ChildSeq(t, n)[i], parentInfo |-> parentInfo]]

\* The calls of visit the for loop makes, in order, whether the filter rejected
\* the node or not.
ChildVisits(t, n, isRejected, parentInfo) ==
  [i \in 1..Cardinality(Children(t, n)) |->
     [node |-> ChildSeq(t, n)[i], parentInfo |-> parentInfo]]

boundariesToChunks(bs) ==
  [i \in 1..Len(bs) |->
     [content     |-> bs[i].text,
      startOffset |-> bs[i].startIndex,
      endOffset   |-> bs[i].endIndex,
      boundary    |-> [type   |-> bs[i].type,
                       name   |-> bs[i].name,
                       parent |-> bs[i].parentInfo,
                       docs   |-> bs[i].docsText]]]

\* The state of the factory in the behaviours that follow one traversal only.
FactoryIdle ==
  /\ grammar = <<>>
  /\ parsers = <<>>
  /\ calls = <<>>
  /\ created = 0
  /\ exited = FALSE

\* The state of the directory scan in the behaviours without one.
DirIdle ==
  /\ fsys = <<>>
  /\ scan = <<>>

\* The state of chunkWithFallback in the behaviours without a call of it.
FallbackIdle == cwf = <<>>

\* The state of the traversal in the behaviours that follow the factory only.
TravIdle ==
  /\ FallbackIdle
  /\ language = "typescript"
  /\ code = <<>>
  /\ tree = <<>>
  /\ pc = "idle"
  /\ stack = <<>>
  /\ target = 0
  /\ visited = <<>>
  /\ boundaries = <<>>
  /\ emitted = <<>>
  /\ filterCalls = <<>>
  /\ accepted = {}
  /\ chunks = <<>>

\* A call of parseCodeAndChunk on the source of any tree of the languages.
TravStart(languages) ==
  /\ language \in languages
  /\ \E t \in Trees(language) :
       /\ code = Source(t)
       /\ tree = ParseTree(t)
  /\ pc = "start"
  /\ stack = <<>>
  /\ target = 0
  /\ visited = <<>>
  /\ boundaries = <<>>
  /\ emitted = <<>>
  /\ filterCalls = <<>>
  /\ accepted = {}
  /\ chunks = <<>>
  /\ FallbackIdle
  /\ FactoryIdle
  /\ DirIdle

TravInit == TravStart(Languages)

ParseAndExtractBoundaries_TraverseFirst ==
  /\ pc = "start"
  /\ \E hasParser \in BOOLEAN :
       /\ pc' = IF hasParser THEN "traverse" ELSE "no_parser"
       /\ stack' = <<[node |-> 1, parentInfo |-> <<>>]>>
  /\ UNCHANGED <<language, code, tree, target, visited, boundaries, emitted, filterCalls,
                 accepted, chunks, cwf>>
  /\ UNCHANGED factoryVars
  /\ UNCHANGED dirVars

\* parseAndExtractBoundaries up to the call of traverse: the factory gives a
\* parser, or none and the call throws.
ParseAndExtractBoundaries ==
  /\ pc = "start"
  /\ \E hasParser \in BOOLEAN :
       IF hasParser
         THEN /\ pc' = "traverse"
              /\ stack' = <<[node |-> 1, parentInfo |-> <<>>]>>
         ELSE /\ pc' = "no_parser"
              /\ stack' = stack
  /\ UNCHANGED <<language, code, tree, target, visited, boundaries, emitted, filterCalls,
                 accepted, chunks, cwf>>
  /\ UNCHANGED factoryVars
  /\ UNCHANGED dirVars

\* Does extractName reach the while loop of the Go case for the node?
ReachesLoop(lang, t, n) == lang = "go" /\ childForFieldName(t, n, "name") = 0

\* extractName of the node on top of the stack enters the loop: let target = node
EnterLoop ==
  /\ pc = "traverse"
  /\ stack # <<>>
  /\ ReachesLoop(language, tree, Head(stack).node)
  /\ pc' = "descent"
  /\ target' = Head(stack).node
  /\ UNCHANGED <<language, code, tree, stack, visited, boundaries, emitted, filterCalls,
                 accepted, chunks, cwf>>
  /\ UNCHANGED factoryVars
  /\ UNCHANGED dirVars

\* One iteration of the loop that goes on: target = target.firstChild
Descend ==
  /\ pc = "descent"
  /\ Descends(tree, target)
  /\ target' = firstChild(tree, target)
  /\ UNCHANGED <<language, code, tree, pc, stack, visited, boundaries, emitted, filterCalls,
                 accepted, chunks, cwf>>
  /\ UNCHANGED factoryVars
  /\ UNCHANGED dirVars

\* One call of visit(node, parentInfo), from the end of the loop when extractName
\* ran it; `ok' is what the filter returns.
VisitNode(ok) ==
  LET node == Head(stack).node
      parentInfo == Head(stack).parentInfo
      docs == extractDocs(language, tree, node)
      name == IF pc = "descent" THEN NameAfterLoop(tree, node, target)
              ELSE extractName(language, tree, node)
      called == isBoundary(language, tree[node].type)
      isAccepted == called /\ ok
  IN  /\ called \/ ok
      /\ filterCalls' = IF called THEN Append(filterCalls, node) ELSE filterCalls
      /\ accepted' = IF isAccepted THEN accepted \cup {node} ELSE accepted
      /\ boundaries' = IF isAccepted
                         THEN push(boundaries, language,
                                   BoundaryOf(tree, node, parentInfo, name, docs))
                         ELSE boundaries
      /\ emitted' = emitted \o [i \in 1..(Len(boundaries') - Len(boundaries)) |-> node]
      /\ stack' = ChildVisits(tree, node, called /\ ~ok,
                              ChildParentInfo(parentInfo, name, isAccepted)) \o Tail(stack)
      /\ visited' = Append(visited, node)

Visit ==
  /\ stack # <<>>
  /\ IF ReachesLoop(language, tree, Head(stack).node)
       THEN pc = "descent" /\ ~Descends(tree, target)
     ELSE pc = "traverse"
  /\ \E ok \in BOOLEAN : VisitNode(ok)
  /\ pc' = "traverse"
  /\ target' = 0
  /\ UNCHANGED <<language, code, tree, chunks, cwf>>
  /\ UNCHANGED factoryVars
  /\ UNCHANGED dirVars

\* traverse returns and chunkWithCST maps the boundaries to chunks.
ReturnChunks ==
  /\ pc = "traverse"
  /\ stack = <<>>
  /\ chunks' = boundariesToChunks(boundaries)
  /\ pc' = "done"
  /\ UNCHANGED <<language, code, tree, stack, target, visited, boundaries, emitted,
                 filterCalls, accepted, cwf>>
  /\ UNCHANGED factoryVars
  /\ UNCHANGED dirVars

TravNext == ParseAndExtractBoundaries \/ Visit \/ ReturnChunks

Spec == TravInit /\ [][TravNext]_vars

\* The traversal of the trees of Go, with the loop of its name extraction.
GoInit == TravStart({"go"})

GoNext == TravNext \/ EnterLoop \/ Descend

GoSpec == GoInit /\ [][GoNext]_vars

\* The traversal of the trees of every modelled language, run to its end: a
\* call that can take a step takes one.
TerminationInit == TravStart(Languages \cup {"go"})

TerminationSpec == TerminationInit /\ [][GoNext]_vars /\ WF_vars(GoNext)

-----------------------------------------------------------------------------
(* createParserFactory: createParser and dispose on one factory            *)

\* The languages the callers ask a parser for; "cobol" is not a language.
RequestedLanguages == {"typescript", "python", "cobol"}

\* The cases of the loader's switch.
SupportedLanguage ==
  {"javascript", "typescript", "python", "go", "rust", "java", "csharp", "ruby",
   "c", "cpp", "html", "css", "bash"}

isSupportedLanguage(lang) == lang \in SupportedLanguage

Callers == 1..MaxCalls

\* A parser is the number of its creation; 0 is null.
Null == 0

\* A call of createParser: where it is, its argument and its result, and what
\* is recorded of it: did it load the grammar and bind a parser, which calls for
\* its language were awaiting the loader when it started (with), did dispose
\* run while it awaited (interrupted) or after it returned (disposed), which
\* parsers had calls for its language returned when it started, since the last
\* dispose (prior) and before it (stale), and is it the first call for its
\* language since the last dispose (first).
IdleCall == [pc |-> "idle", lang |-> "", result |-> Null,
             loaded |-> FALSE, bound |-> FALSE, with |-> {},
             interrupted |-> FALSE, disposed |-> FALSE,
             prior |-> {}, stale |-> {}, first |-> FALSE]

\* The parsers the finished calls for a language returned, before the last
\* dispose or since.
Returned(lang, beforeDispose) ==
  {calls[d].result : d \in {e \in DOMAIN calls : /\ calls[e].pc = "done"
                                                 /\ calls[e].lang = lang
                                                 /\ calls[e].result # Null
                                                 /\ calls[e].disposed = beforeDispose}}

\* The calls for a language made since the last dispose.
SinceDispose(lang) ==
  {d \in DOMAIN calls : /\ calls[d].pc # "idle"
                        /\ calls[d].lang = lang
                        /\ ~calls[d].disposed
                        /\ ~calls[d].interrupted}

\* What is recorded of a call when it is made.
Started(c, lang) ==
  [calls[c] EXCEPT !.lang = lang,
                   !.prior = Returned(lang, FALSE),
                   !.stale = Returned(lang, TRUE),
                   !.first = (SinceDispose(lang) = {})]

\* grammar[l] is what the installed grammar module of l does: "ok" loads and
\* binds, "missing" fails to import, "corrupt" loads and makes setLanguage throw.
FactoryInit ==
  /\ grammar \in [RequestedLanguages \cap SupportedLanguage -> {"ok", "missing", "corrupt"}]
  /\ parsers = [l \in RequestedLanguages |-> Null]
  /\ calls = [c \in Callers |-> IdleCall]
  /\ created = 0
  /\ exited = FALSE
  /\ TravIdle
  /\ DirIdle

LoadsModule_Always(lang) == TRUE

\* loader(language): the module, or null when the import throws.
LoadsModule(lang) == grammar[lang] # "missing"

\* parser.setLanguage(languageModule) throws on a grammar that does not bind.
SetLanguageThrows(lang) == grammar[lang] = "corrupt"

\* createParser(language) up to its first await, or to its return when it does
\* not await: an unsupported language and a cached parser return at once.
createParser(c, lang) ==
  /\ ~exited
  /\ calls[c].pc = "idle"
  /\ IF ~isSupportedLanguage(lang)
       THEN calls' = [calls EXCEPT ![c] = [Started(c, lang) EXCEPT !.pc = "done",
                                                                   !.result = Null]]
     ELSE IF parsers[lang] # Null
       THEN calls' = [calls EXCEPT ![c] = [Started(c, lang) EXCEPT !.pc = "done",
                                                                   !.result = parsers[lang]]]
     ELSE calls' = [calls EXCEPT ![c] =
                      [Started(c, lang) EXCEPT !.pc = "loading", !.loaded = TRUE,
                                !.with = {d \in DOMAIN calls : /\ calls[d].pc = "loading"
                                                               /\ calls[d].lang = lang}]]
  /\ UNCHANGED <<grammar, parsers, created, exited>>

\* A call of createParser by a caller of the factory.
CreateParser(c, lang) ==
  /\ createParser(c, lang)
  /\ UNCHANGED travVars
  /\ UNCHANGED dirVars

set_EveryKey(cache, lang, parser) == [l \in DOMAIN cache |-> parser]

\* parsers.set(language, parser)
set(cache, lang, parser) == [cache EXCEPT ![lang] = parser]

\* createParser after the await of the loader: bind and cache the parser, or
\* exit() when the bind throws, and return what the cache holds.
loaderReturns(c) ==
  LET lang == calls[c].lang
  IN  /\ ~exited
      /\ calls[c].pc = "loading"
      /\ IF ~LoadsModule(lang)
           THEN /\ calls' = [calls EXCEPT ![c] = [@ EXCEPT !.pc = "done",
                                                          !.result = parsers[lang]]]
                /\ UNCHANGED <<parsers, created, exited>>
         ELSE IF SetLanguageThrows(lang)
           THEN /\ created' = created + 1
                /\ exited' = TRUE
                /\ calls' = [calls EXCEPT ![c] = [@ EXCEPT !.pc = "exit"]]
                /\ UNCHANGED parsers
         ELSE /\ created' = created + 1
              /\ parsers' = set(parsers, lang, created + 1)
              /\ calls' = [calls EXCEPT ![c] = [@ EXCEPT !.pc = "done", !.bound = TRUE,
                                                        !.result = created + 1]]
              /\ UNCHANGED exited
      /\ UNCHANGED grammar

\* The loader of a caller's createParser returns.
LoaderReturns(c) ==
  /\ loaderReturns(c)
  /\ UNCHANGED travVars
  /\ UNCHANGED dirVars

\* dispose(): parsers.clear()
Dispose ==
  /\ ~exited
  /\ parsers' = [l \in RequestedLanguages |-> Null]
  /\ calls' = [c \in DOMAIN calls |->
                 IF calls[c].pc = "done" THEN [calls[c] EXCEPT !.disposed = TRUE]
                 ELSE IF calls[c].pc = "loading" THEN [calls[c] EXCEPT !.interrupted = TRUE]
                 ELSE calls[c]]
  /\ UNCHANGED <<grammar, created, exited>>
  /\ UNCHANGED travVars
  /\ UNCHANGED dirVars

FactoryNext ==
  \/ \E c \in Callers, lang \in RequestedLanguages : CreateParser(c, lang)
  \/ \E c \in Callers : LoaderReturns(c)
  \/ Dispose

FactorySpec == FactoryInit /\ [][FactoryNext]_vars

-----------------------------------------------------------------------------
(* readDirectoryAndChunk: the scan of a directory with one factory          *)

\* File names are sequences of characters; the entries of the scanned tree.
Chars(w) ==
  CASE w = "a.ts"   -> <<"a", ".", "t", "s">>
    [] w = "d.json" -> <<"d", ".", "j", "s", "o", "n">>
    [] w = "n.txt"  -> <<"n", ".", "t", "x", "t">>
    [] w = "m.rs"   -> <<"m", ".", "r", "s">>
    [] w = ".rs"    -> <<".", "r", "s">>
    [] w = "sub"    -> <<"s", "u", "b">>
    [] w = ".ts"    -> <<".", "t", "s">>
    [] w = ".tsx"   -> <<".", "t", "s", "x">>
    [] w = ".js"    -> <<".", "j", "s">>
    [] w = ".jsx"   -> <<".", "j", "s", "x">>
    [] w = ".py"    -> <<".", "p", "y">>
    [] w = ".java"  -> <<".", "j", "a", "v", "a">>
    [] w = ".cpp"   -> <<".", "c", "p", "p">>
    [] w = ".c"     -> <<".", "c">>
    [] w = ".h"     -> <<".", "h">>
    [] w = ".cs"    -> <<".", "c", "s">>
    [] w = ".go"    -> <<".", "g", "o">>
    [] w = ".rb"    -> <<".", "r", "b">>
    [] w = ".php"   -> <<".", "p", "h", "p">>

FileNames == {Chars("a.ts"), Chars("d.json"), Chars("n.txt"), Chars("m.rs")}

DirectoryNames == {Chars("sub")}

\* /\.(ts|js|tsx|jsx|py|java|cpp|c|h|cs|go|rb|php|go)/
GateAlternatives ==
  {Chars(".ts"), Chars(".js"), Chars(".tsx"), Chars(".jsx"), Chars(".py"),
   Chars(".java"), Chars(".cpp"), Chars(".c"), Chars(".h"), Chars(".cs"),
   Chars(".go"), Chars(".rb"), Chars(".php")}

\* The pattern is not anchored: it matches anywhere in the name.
isSupportedLanguageExtension(filename) ==
  \E i \in 1..Len(filename) : \E alt \in GateAlternatives :
    /\ i + Len(alt) - 1 <= Len(filename)
    /\ SubSeq(filename, i, i + Len(alt) - 1) = alt

\* path.extname: from the last dot of the name, unless the name starts with it.
extname(filename) ==
  LET dots == {i \in 2..Len(filename) : filename[i] = "."}
  IN  IF dots = {} THEN <<>>
      ELSE SubSeq(filename, Max(dots), Len(filename))

NoLanguage == ""

getLanguageFromExtension(ext) ==
  CASE ext \in {Chars(".ts"), Chars(".tsx")} -> "typescript"
    [] ext \in {Chars(".js"), Chars(".jsx")} -> "javascript"
    [] ext = Chars(".py")                    -> "python"
    [] ext = Chars(".rs")                    -> "rust"
    [] OTHER                                 -> NoLanguage

\* The languages of the files.
FileLanguages ==
  {getLanguageFromExtension(extname(f)) : f \in FileNames} \ {NoLanguage}

\* The languages of the files a scan reads.
ScanLanguages ==
  {getLanguageFromExtension(extname(f)) :
     f \in {g \in FileNames : isSupportedLanguageExtension(g)}} \ {NoLanguage}

\* What the file system and the parser do with a file: readFile rejects, parse
\* throws, or the traversal returns a number of chunks.  A file the scan does
\* not read has no fate to choose: it has the chunks its text holds.
Chunked(n) == [outcome |-> "chunks", chunks |-> n]

Unreadable == [outcome |-> "unreadable", chunks |-> 0]

ParseThrows == [outcome |-> "throws", chunks |-> 0]

Fates(filename) ==
  IF ~isSupportedLanguageExtension(filename)
    THEN IF getLanguageFromExtension(extname(filename)) = NoLanguage
           THEN {Chunked(0)} ELSE {Chunked(MaxChunks)}
  ELSE IF getLanguageFromExtension(extname(filename)) = NoLanguage
    THEN {Unreadable, Chunked(0)}
  ELSE {Unreadable, ParseThrows} \cup {Chunked(n) : n \in 0..MaxChunks}

Root == 1

RootEntry == [kind |-> "dir", parent |-> 0, name |-> <<>>, fate |-> Chunked(0)]

EntriesOf(fs, d) == {e \in DOMAIN fs : fs[e].parent = d}

\* The directories an entry can be appended to in the listing order: the last
\* entry when it is a directory, and its ancestors.
OpenDirectories(fs) ==
  LET last == Len(fs)
      up == {d \in DOMAIN fs : d \in Ancestors(fs, last)}
  IN  {d \in up \cup {last} : fs[d].kind = "dir"}

ExtendFs(fs) ==
  UNION { LET used == {fs[e].name : e \in EntriesOf(fs, d)}
          IN  {Append(fs, [kind |-> "dir", parent |-> d, name |-> n, fate |-> Chunked(0)]) :
                 n \in DirectoryNames \ used}
              \cup
              UNION { {Append(fs, [kind |-> "file", parent |-> d, name |-> n, fate |-> x]) :
                         x \in Fates(n)} : n \in FileNames \ used }
        : d \in OpenDirectories(fs) }

RECURSIVE FileSystemsOfSize(_)
FileSystemsOfSize(k) ==
  IF k = 0 THEN {<<RootEntry>>}
  ELSE UNION {ExtendFs(fs) : fs \in FileSystemsOfSize(k - 1)}

FileSystems == UNION {FileSystemsOfSize(k) : k \in 0..MaxEntries}

RelativePath_NameOnly(fs, e) == IF e = Root THEN <<>> ELSE <<fs[e].name>>

\* path.join(relativePath, entry.name): the names from the scanned directory down.
RECURSIVE RelativePath(_, _)
RelativePath(fs, e) ==
  IF e = Root THEN <<>> ELSE Append(RelativePath(fs, fs[e].parent), fs[e].name)

\* The chunks parseCodeAndChunk resolves to for the text of a file, each one
\* standing for its content, offsets and boundary.
parseCodeAndChunk(fs, f) == [k \in 1..fs[f].fate.chunks |-> [index |-> k]]

\* chunks.map(c => ({...c, filePath: relativeFilePath})) of the chunks of a file
FileChunks(fs, f) ==
  LET chunksOfFile == parseCodeAndChunk(fs, f)
  IN  [k \in DOMAIN chunksOfFile |->
         [x \in DOMAIN chunksOfFile[k] \cup {"filePath"} |->
            IF x = "filePath" THEN RelativePath(fs, f) ELSE chunksOfFile[k][x]]]

RECURSIVE Flat(_)
Flat(results) ==
  IF results = <<>> THEN <<>> ELSE Head(results) \o Flat(Tail(results))

\* A promise of the scan: its status, the chunks it is fulfilled with, and its
\* place in the order in which the promises of the scan settle (0: not settled).
Pending(status) == [status |-> status, result |-> <<>>, settled |-> 0]

Unsettled == Pending("none")

SettledSoFar == Cardinality({e \in DOMAIN scan : scan[e].settled > 0})

Fulfilled(result) ==
  [status |-> "fulfilled", result |-> result, settled |-> SettledSoFar + 1]

Rejection == [status |-> "rejected", result |-> <<>>, settled |-> SettledSoFar + 1]

\* The grammars installed for the languages of the tree, and the tree.
DirInit ==
  /\ fsys \in FileSystems
  /\ scan = [e \in DOMAIN fsys |-> Unsettled]
  /\ grammar \in [ScanLanguages -> {"ok", "missing", "corrupt"}]
  /\ parsers = [l \in ScanLanguages |-> Null]
  /\ calls = [e \in DOMAIN fsys |-> IdleCall]
  /\ created = 0
  /\ exited = FALSE
  /\ TravIdle

\* readDirectoryAndChunk(factory, options, baseDirPath), up to the await of readdir
ReadDirectoryAndChunk ==
  /\ scan[Root].status = "none"
  /\ scan' = [scan EXCEPT ![Root] = Pending("readdir")]
  /\ UNCHANGED <<fsys, travVars, factoryVars>>

\* What entries.map makes of an entry: the promise of a directory or of a file
\* that passes the gate, and an empty array for any other file.
EntryPromise(e) ==
  IF fsys[e].kind = "dir" THEN Pending("readdir")
  ELSE IF isSupportedLanguageExtension(fsys[e].name)
    THEN Pending("reading")
  ELSE Pending("value")

\* _readDirectoryAndChunkRecursive after readdir, up to the await of Promise.all
ReaddirReturns(d) ==
  /\ ~exited
  /\ scan[d].status = "readdir"
  /\ scan' = [e \in DOMAIN scan |->
                IF e = d THEN Pending("all")
                ELSE IF fsys[e].parent = d THEN EntryPromise(e)
                ELSE scan[e]]
  /\ UNCHANGED <<fsys, travVars, factoryVars>>

ReadFileReturns_LanguageUnchecked(f) ==
  LET lang == getLanguageFromExtension(extname(fsys[f].name))
  IN  /\ ~exited
      /\ scan[f].status = "reading"
      /\ IF fsys[f].fate = Unreadable
           THEN /\ scan' = [scan EXCEPT ![f] = Rejection]
                /\ UNCHANGED factoryVars
         ELSE /\ scan' = [scan EXCEPT ![f] = Pending("parser")]
              /\ createParser(f, lang)
      /\ UNCHANGED <<fsys, travVars>>

\* readFileAndChunk after readFile, into parseAndExtractBoundaries up to the
\* await of createParser
ReadFileReturns(f) ==
  LET lang == getLanguageFromExtension(extname(fsys[f].name))
  IN  /\ ~exited
      /\ scan[f].status = "reading"
      /\ IF fsys[f].fate = Unreadable
           THEN /\ scan' = [scan EXCEPT ![f] = Rejection]
                /\ UNCHANGED factoryVars
         ELSE IF lang = NoLanguage
           THEN /\ scan' = [scan EXCEPT ![f] = Fulfilled(<<>>)]
                /\ UNCHANGED factoryVars
         ELSE /\ scan' = [scan EXCEPT ![f] = Pending("parser")]
              /\ createParser(f, lang)
      /\ UNCHANGED <<fsys, travVars>>

\* the loader awaited by the createParser of a file returns
GrammarLoaded(f) ==
  /\ scan[f].status = "parser"
  /\ loaderReturns(f)
  /\ UNCHANGED <<fsys, scan, travVars>>

\* parseAndExtractBoundaries after createParser, to the return of readFileAndChunk
CreateParserReturns(f) ==
  /\ ~exited
  /\ scan[f].status = "parser"
  /\ calls[f].pc = "done"
  /\ IF calls[f].result = Null \/ fsys[f].fate = ParseThrows
       THEN scan' = [scan EXCEPT ![f] = Rejection]
     ELSE scan' = [scan EXCEPT ![f] = Fulfilled(FileChunks(fsys, f))]
  /\ UNCHANGED <<fsys, travVars, factoryVars>>

Settled(e) == scan[e].status \in {"value", "fulfilled"}

ResultOrder_Completion(d) ==
  LET es == EntriesOf(fsys, d)
  IN  CHOOSE o \in [1..Cardinality(es) -> es] :
        \A i, j \in 1..Cardinality(es) :
          i < j => \/ scan[o[i]].settled < scan[o[j]].settled
                   \/ scan[o[i]].settled = scan[o[j]].settled /\ o[i] < o[j]

\* Promise.all fulfils with the values in the order of the promises it was
\* given, which entries.map made in the order of the listing.
ResultOrder(d) == ChildSeq(fsys, d)

\* await Promise.all(promises) and nestedResults.flat()
PromiseAll(d) ==
  /\ ~exited
  /\ scan[d].status = "all"
  /\ IF \E e \in EntriesOf(fsys, d) : scan[e].status = "rejected"
       THEN scan' = [scan EXCEPT ![d] = Rejection]
     ELSE /\ \A e \in EntriesOf(fsys, d) : Settled(e)
          /\ scan' = [scan EXCEPT ![d] =
                        Fulfilled(Flat([i \in 1..Len(ResultOrder(d)) |->
                                          scan[ResultOrder(d)[i]].result]))]
  /\ UNCHANGED <<fsys, travVars, factoryVars>>

DirNext ==
  \/ ReadDirectoryAndChunk
  \/ \E d \in DOMAIN fsys : ReaddirReturns(d)
  \/ \E f \in DOMAIN fsys : ReadFileReturns(f)
  \/ \E f \in DOMAIN fsys : GrammarLoaded(f)
  \/ \E f \in DOMAIN fsys : CreateParserReturns(f)
  \/ \E d \in DOMAIN fsys : PromiseAll(d)

DirSpec == DirInit /\ [][DirNext]_vars

-----------------------------------------------------------------------------
(* readFileAndChunk: a call on one file with one factory                    *)

\* What the file system and the parser do with the file of the call.
DirectFates == {Unreadable, ParseThrows} \cup {Chunked(n) : n \in 0..MaxChunks}

FileInit ==
  /\ \E n \in FileNames, x \in DirectFates :
       fsys = <<RootEntry, [kind |-> "file", parent |-> Root, name |-> n, fate |-> x]>>
  /\ scan = [e \in DOMAIN fsys |-> Unsettled]
  /\ grammar \in [FileLanguages -> {"ok", "missing", "corrupt"}]
  /\ parsers = [l \in FileLanguages |-> Null]
  /\ calls = [e \in DOMAIN fsys |-> IdleCall]
  /\ created = 0
  /\ exited = FALSE
  /\ TravIdle

\* readFileAndChunk(factory, options, baseDirPath, relativeFilePath), up to the
\* await of readFile
ReadFileAndChunk(f) ==
  /\ fsys[f].kind = "file"
  /\ scan[f].status = "none"
  /\ scan' = [scan EXCEPT ![f] = Pending("reading")]
  /\ UNCHANGED <<fsys, travVars, factoryVars>>

FileNext ==
  \/ \E f \in DOMAIN fsys : ReadFileAndChunk(f)
  \/ \E f \in DOMAIN fsys : ReadFileReturns(f)
  \/ \E f \in DOMAIN fsys : GrammarLoaded(f)
  \/ \E f \in DOMAIN fsys : CreateParserReturns(f)

FileSpec == FileInit /\ [][FileNext]_vars

-----------------------------------------------------------------------------
(* chunkWithFallback: a call with a file path and a fallback chunker        *)

\* What the fallback chunker does when it is called: it returns chunks or throws.
FallbackFates == {"returns", "throws"}

\* What chunkWithCST does once it has a parser: the parse or the filter throws,
\* or the traversal returns a number of chunks.
CstFates == {ParseThrows} \cup {Chunked(n) : n \in 0..MaxChunks}

\* The one caller of createParser on the factory of the call.
Chunker == 1

FallbackInit ==
  /\ \E n \in FileNames, x \in CstFates, y \in FallbackFates :
       cwf = [pc |-> "start", filePath |-> n, cst |-> x, fallback |-> y,
              fallbackCalls |-> <<>>, factory |-> "none",
              settled |-> "pending", result |-> <<>>]
  /\ grammar \in [FileLanguages -> {"ok", "missing", "corrupt"}]
  /\ parsers = [l \in FileLanguages |-> Null]
  /\ calls = [c \in {Chunker} |-> IdleCall]
  /\ created = 0
  /\ exited = FALSE
  /\ language = "typescript"
  /\ code = <<>>
  /\ tree = <<>>
  /\ pc = "idle"
  /\ stack = <<>>
  /\ target = 0
  /\ visited = <<>>
  /\ boundaries = <<>>
  /\ emitted = <<>>
  /\ filterCalls = <<>>
  /\ accepted = {}
  /\ chunks = <<>>
  /\ DirIdle

\* The chunks the fallback chunker returns for the code and the language name.
FallbackChunks(lang) == <<[index |-> 0, lang |-> lang]>>

\* The chunks chunkWithCST resolves to.
CstChunks(n) == [k \in 1..n |-> [index |-> k]]

\* return fallback(code, lang, options): the call is recorded, and the promise
\* settles with what the fallback returns or throws.
ReturnFallback(call, lang) ==
  [call EXCEPT !.pc = "returned",
               !.fallbackCalls = Append(@, lang),
               !.settled = IF call.fallback = "throws" THEN "rejected" ELSE "fulfilled",
               !.result = IF call.fallback = "throws" THEN <<>> ELSE FallbackChunks(lang)]

finally_NoDispose(call) == call

\* finally { factory.dispose() }
finally(call) == [call EXCEPT !.factory = "disposed"]

\* chunkWithFallback up to the await of chunkWithCST, or to its return when the
\* extension has no language.
ChunkWithFallback ==
  LET lang == getLanguageFromExtension(extname(cwf.filePath))
  IN  /\ cwf.pc = "start"
      /\ IF lang = NoLanguage
           THEN /\ cwf' = ReturnFallback(cwf, "unknown")
                /\ UNCHANGED factoryVars
         ELSE /\ cwf' = [cwf EXCEPT !.pc = "cst", !.factory = "created"]
              /\ createParser(Chunker, lang)
      /\ UNCHANGED <<language, code, tree, pc, stack, target, visited, boundaries, emitted,
                     filterCalls, accepted, chunks>>
      /\ UNCHANGED dirVars

\* the loader awaited by the createParser of chunkWithCST returns
FallbackLoaderReturns ==
  /\ cwf.pc = "cst"
  /\ loaderReturns(Chunker)
  /\ UNCHANGED travVars
  /\ UNCHANGED dirVars

\* chunkWithCST settles: its chunks are returned, or the catch block returns the
\* fallback's; the finally block disposes of the factory.
ChunkWithCSTSettles ==
  /\ ~exited
  /\ cwf.pc = "cst"
  /\ calls[Chunker].pc = "done"
  /\ IF calls[Chunker].result = Null \/ cwf.cst = ParseThrows
       THEN cwf' = finally(ReturnFallback(cwf, calls[Chunker].lang))
     ELSE cwf' = finally([cwf EXCEPT !.pc = "returned",
                                    !.settled = "fulfilled",
                                    !.result = CstChunks(cwf.cst.chunks)])
  /\ IF cwf'.factory = "disposed"
       THEN /\ parsers' = [l \in DOMAIN parsers |-> Null]
            /\ calls' = [calls EXCEPT ![Chunker] = [@ EXCEPT !.disposed = TRUE]]
     ELSE UNCHANGED <<parsers, calls>>
  /\ UNCHANGED <<grammar, created, exited>>
  /\ UNCHANGED <<language, code, tree, pc, stack, target, visited, boundaries, emitted,
                 filterCalls, accepted, chunks>>
  /\ UNCHANGED dirVars

FallbackNext == ChunkWithFallback \/ FallbackLoaderReturns \/ ChunkWithCSTSettles

FallbackSpec == FallbackInit /\ [][FallbackNext]_vars

-----------------------------------------------------------------------------
(* Claims about chunkWithFallback                                           *)

\* Did chunkWithCST succeed: it got a parser, and parse and traversal returned?
CstSucceeded ==
  /\ calls[Chunker].pc = "done"
  /\ calls[Chunker].result # Null
  /\ cwf.cst # ParseThrows

\* Did chunkWithCST throw: no parser, or a throw of the parse or the filter?
CstThrew ==
  /\ calls[Chunker].pc = "done"
  /\ calls[Chunker].result = Null \/ cwf.cst = ParseThrows

NoLanguageFor(filePath) == getLanguageFromExtension(extname(filePath)) = NoLanguage

\* C28: a settled call of chunkWithFallback has returned the chunks of
\* chunkWithCST when that succeeded, without a call of the fallback; it has the
\* outcome of the fallback, called once, exactly when the extension has no
\* language or chunkWithCST threw; and the factory it created is disposed.
C28_FallbackExactlyOnFailure ==
  cwf.settled # "pending" =>
    /\ Len(cwf.fallbackCalls) <= 1
    /\ cwf.fallbackCalls # <<>> <=> (NoLanguageFor(cwf.filePath) \/ CstThrew)
    /\ (~NoLanguageFor(cwf.filePath) /\ CstSucceeded) =>
         /\ cwf.settled = "fulfilled"
         /\ cwf.result = CstChunks(cwf.cst.chunks)
    /\ cwf.fallbackCalls # <<>> =>
         IF cwf.fallback = "throws" THEN cwf.settled = "rejected"
         ELSE /\ cwf.settled = "fulfilled"
              /\ cwf.result = FallbackChunks(cwf.fallbackCalls[1])
    /\ cwf.factory # "created"
    /\ cwf.factory = "disposed" => \A l \in DOMAIN parsers : parsers[l] = Null
    /\ cwf.factory = "none" <=> NoLanguageFor(cwf.filePath)

C28_Witness ==
  /\ cwf.settled = "fulfilled"
  /\ cwf.factory = "disposed"
  /\ cwf.cst = ParseThrows
  /\ calls[Chunker].bound
  /\ cwf.result = FallbackChunks("typescript")

-----------------------------------------------------------------------------
(* Claims about readFileAndChunk                                            *)

\* The files whose extension maps to no language.
NoLanguageFile(f) ==
  /\ fsys[f].kind = "file"
  /\ getLanguageFromExtension(extname(fsys[f].name)) = NoLanguage

Returned_readFileAndChunk(f) == scan[f].status \notin {"none", "reading", "parser"}

-----------------------------------------------------------------------------
(* Claims about the directory scan                                          *)

\* The files of the tree whose chunking fails: readFile rejects, createParser
\* returned null, or the parse throws.
Failed(f) ==
  /\ fsys[f].kind = "file"
  /\ scan[f].status = "rejected"

\* The entry a chunk comes from.
EntryOf(chunk) == CHOOSE e \in DOMAIN fsys : RelativePath(fsys, e) = chunk.filePath

\* C15: the chunks of the result are in the order of the listing, directories
\* in depth, and the chunks of one file in the order of their emission, in
\* whatever order the files were chunked.
C15_ListingOrder ==
  scan[Root].status = "fulfilled" =>
    \A i, j \in 1..Len(scan[Root].result) :
      i < j =>
        LET a == scan[Root].result[i]
            b == scan[Root].result[j]
        IN  \/ EntryOf(a) < EntryOf(b)
            \/ EntryOf(a) = EntryOf(b) /\ a.index < b.index

C15_Witness ==
  /\ scan[Root].status = "fulfilled"
  /\ \E f, g \in DOMAIN fsys :
       /\ f < g
       /\ scan[g].settled < scan[f].settled
       /\ Len(scan[f].result) > 1
       /\ scan[g].result # <<>>
       /\ fsys[g].parent # Root

\* C17: the result of a scan has every chunk of every file, at any depth, whose
\* extension is that of a supported language.
C17_NoSupportedFileSkipped ==
  scan[Root].status = "fulfilled" =>
    \A f \in DOMAIN fsys :
      (/\ fsys[f].kind = "file"
       /\ getLanguageFromExtension(extname(fsys[f].name)) \in SupportedLanguage) =>
        \A k \in 1..Len(FileChunks(fsys, f)) :
          \E i \in 1..Len(scan[Root].result) :
            scan[Root].result[i] = FileChunks(fsys, f)[k]

\* The path of an entry relative to the scanned directory: the names of the
\* directories above it, from the scanned directory down, and its own name.
PathFromBase(e) ==
  LET chain == Ascending((Ancestors(fsys, e) \cup {e}) \ {Root})
  IN  [i \in 1..Len(chain) |-> fsys[chain[i]].name]

WithoutFilePath(chunk) == [x \in DOMAIN chunk \ {"filePath"} |-> chunk[x]]

\* The chunk is the k-th chunk of the text of file f with the path of f added.
ChunkOfFile(chunk, f, k) ==
  /\ "filePath" \in DOMAIN chunk
  /\ chunk.filePath = PathFromBase(f)
  /\ WithoutFilePath(chunk) = parseCodeAndChunk(fsys, f)[k]

\* C21: the chunks readFileAndChunk resolves to are the chunks of the text of
\* the file, in their order, each with filePath the path of the file relative
\* to the scanned directory and nothing else changed; and every chunk of the
\* result of readDirectoryAndChunk is such a chunk of a file of the tree.
C21_FilePathAdded ==
  /\ \A f \in DOMAIN fsys :
       (fsys[f].kind = "file" /\ scan[f].status = "fulfilled" /\ scan[f].result # <<>>) =>
         /\ Len(scan[f].result) = Len(parseCodeAndChunk(fsys, f))
         /\ \A k \in 1..Len(scan[f].result) : ChunkOfFile(scan[f].result[k], f, k)
  /\ scan[Root].status = "fulfilled" =>
       \A i \in 1..Len(scan[Root].result) :
         \E f \in DOMAIN fsys :
           /\ fsys[f].kind = "file"
           /\ \E k \in 1..Len(parseCodeAndChunk(fsys, f)) :
                ChunkOfFile(scan[Root].result[i], f, k)

C21_Witness ==
  /\ scan[Root].status = "fulfilled"
  /\ \E i \in 1..Len(scan[Root].result) : Len(scan[Root].result[i].filePath) > 1
  /\ \E i \in 1..Len(scan[Root].result) : Len(scan[Root].result[i].filePath) = 1

\* The files that pass the gate of the scan and have no language.
GatedWithoutLanguage(f) ==
  /\ NoLanguageFile(f)
  /\ isSupportedLanguageExtension(fsys[f].name)

\* C30: a file that passes the gate and has no language asks for no parser,
\* gives no chunk and does not reject, so that it cannot fail the scan; and a
\* file that does not pass the gate is never read.
C30_GatedWithoutLanguage ==
  \A f \in DOMAIN fsys :
    /\ GatedWithoutLanguage(f) =>
         /\ calls[f].pc = "idle"
         /\ scan[f].result = <<>>
         /\ scan[f].status # "rejected"
    /\ (fsys[f].kind = "file" /\ ~isSupportedLanguageExtension(fsys[f].name)) =>
         scan[f].status \in {"none", "value"}

\* C4: when the chunking of a file fails, the scan still resolves: the promise
\* of readDirectoryAndChunk is never rejected.
C4_ScanSurvivesFileFailure ==
  (\E f \in DOMAIN fsys : Failed(f)) => scan[Root].status # "rejected"

-----------------------------------------------------------------------------
(* Claims about the parser factory                                         *)

\* C2: of two calls of createParser for one language that are in flight at the
\* same time, only one loads the grammar and only one binds a parser, and both
\* return the same parser (or both null).
C2_SingleFlight ==
  \A c, d \in Callers :
    (c # d /\ d \in calls[c].with) =>
      /\ ~(calls[c].loaded /\ calls[d].loaded)
      /\ ~(calls[c].bound /\ calls[d].bound)
      /\ (calls[c].pc = "done" /\ calls[d].pc = "done") =>
           calls[c].result = calls[d].result

\* C3: no call of createParser terminates the process, also when the grammar
\* loads and does not bind.
C3_NeverExits == ~exited

\* C11: a call of createParser(L) made after calls for L have returned a parser,
\* with no dispose since, returns that one parser and does not load the grammar.
C11_CachedParserReused ==
  \A c \in Callers :
    (/\ calls[c].pc = "done"
     /\ ~calls[c].disposed
     /\ ~calls[c].interrupted
     /\ calls[c].prior # {}) =>
      /\ calls[c].prior = {calls[c].result}
      /\ ~calls[c].loaded

\* C12: over all the calls of createParser on the factory, the grammar of a
\* language is loaded at most once.
C12_LoadsOnce ==
  \A l \in RequestedLanguages :
    Cardinality({c \in Callers : calls[c].loaded /\ calls[c].lang = l}) <= 1

\* The languages createParser has no parser for: not supported, or with a
\* grammar module that fails to import.
Unloadable(l) ==
  IF isSupportedLanguage(l) THEN grammar[l] = "missing" ELSE TRUE

\* C13: createParser returns null for a language that is not supported, without
\* a load, and for one whose module fails to load; the cache gets no entry for
\* such a language.
C13_AbsentOnFailure ==
  /\ \A c \in Callers :
       (calls[c].pc = "done" /\ Unloadable(calls[c].lang)) =>
         /\ calls[c].result = Null
         /\ ~isSupportedLanguage(calls[c].lang) => ~calls[c].loaded
  /\ \A l \in RequestedLanguages : Unloadable(l) => parsers[l] = Null

C13_Witness ==
  /\ \E c \in Callers : /\ calls[c].pc = "done"
                         /\ ~isSupportedLanguage(calls[c].lang)
  /\ \E c \in Callers : /\ calls[c].pc = "done"
                         /\ isSupportedLanguage(calls[c].lang)
                         /\ grammar[calls[c].lang] = "missing"
                         /\ calls[c].loaded

\* C14: the first call of createParser(L) after a dispose, for a
\* language with a parser returned before the dispose, loads the grammar, binds
\* a parser and returns it, and it is not one returned before the dispose.
C14_FreshLoadAfterDispose ==
  \A c \in Callers :
    (calls[c].pc = "done" /\ calls[c].first /\ calls[c].stale # {}) =>
      /\ calls[c].loaded
      /\ calls[c].bound
      /\ calls[c].result \notin calls[c].stale

\* The languages whose grammar a parser was bound to: the language of the call
\* that created it.
BoundFor(parser) ==
  {calls[c].lang : c \in {d \in DOMAIN calls : calls[d].bound /\ calls[d].result = parser}}

\* C27: the cache holds parsers for supported languages only, each one bound
\* to the grammar loaded for its key, and a call of createParser returns null or
\* a parser bound for the language it asked for.
C27_CacheKeyedByLanguage ==
  /\ \A l \in DOMAIN parsers :
       parsers[l] # Null => isSupportedLanguage(l) /\ BoundFor(parsers[l]) = {l}
  /\ \A c \in DOMAIN calls :
       (calls[c].pc = "done" /\ calls[c].result # Null) =>
         BoundFor(calls[c].result) = {calls[c].lang}

C27_Witness ==
  /\ \E l, k \in DOMAIN parsers : l # k /\ parsers[l] # Null /\ parsers[k] # Null
  /\ \E c \in DOMAIN calls : calls[c].interrupted /\ calls[c].pc = "done"

\* Has dispose run, with no call of createParser made since?
DisposedLast ==
  /\ \E c \in DOMAIN calls : calls[c].disposed \/ calls[c].interrupted
  /\ \A c \in DOMAIN calls : calls[c].pc # "idle" => calls[c].disposed \/ calls[c].interrupted

\* C26: a dispose is not undone by the calls that were awaiting the loader when
\* it ran: a disposed factory with no call made since the dispose holds no
\* parser.
C26_DisposeNotUndone ==
  DisposedLast => \A l \in DOMAIN parsers : parsers[l] = Null

-----------------------------------------------------------------------------
(* Claims about the chunks of one source                                   *)

Done == pc = "done"

ChunkIds == 1..Len(chunks)

\* The languages whose documentation is the comments before a node.
CommentAdjacency ==
  {"javascript", "typescript", "rust", "java", "ruby", "c", "cpp", "go", "csharp"}

\* C1: every chunk's content is the slice source[startOffset:endOffset] of the
\* source, also when attached documentation moved startOffset.
C1_ContentIsSlice ==
  Done => \A k \in ChunkIds :
            chunks[k].content = Slice(code, chunks[k].startOffset, chunks[k].endOffset)

\* The string literal that is the first statement of the body of node n, or 0.
Docstring(t, n) ==
  LET body == {c \in Children(t, n) : t[c].type = "block"}
      first == IF body = {} THEN 0 ELSE firstChild(t, Min(body))
  IN  IF /\ first # 0
         /\ t[first].type = "expression_statement"
         /\ Cardinality(Children(t, first)) = 1
         /\ t[firstChild(t, first)].type = "string"
        THEN firstChild(t, first)
        ELSE 0

\* C5: in Python, a chunk whose node has a docstring has that literal's text as
\* its docs, and starts at the node's own start offset.
C5_PythonDocstring ==
  (Done /\ language = "python") =>
    \A k \in ChunkIds :
      Docstring(tree, emitted[k]) # 0 =>
        /\ chunks[k].boundary.docs = tree[Docstring(tree, emitted[k])].text
        /\ chunks[k].startOffset = tree[emitted[k]].startIndex

\* The names of the accepted, named ancestors of node n, outermost first.
NamedAcceptedAncestors(n) ==
  LET kept == {a \in Ancestors(tree, n) :
                 a \in accepted /\ extractName(language, tree, a) # Undefined}
      ids == Ascending(kept)
  IN  [i \in 1..Len(ids) |-> extractName(language, tree, ids[i])]

\* C6: a chunk's parent chain is the names of exactly its accepted, named
\* ancestors, outermost first.
C6_ParentChain ==
  Done => \A k \in ChunkIds :
            chunks[k].boundary.parent = NamedAcceptedAncestors(emitted[k])

C6_Witness ==
  /\ Done
  /\ \E k \in ChunkIds :
       /\ Len(chunks[k].boundary.parent) = 2
       /\ \E a \in Ancestors(tree, emitted[k]) :
            ~isBoundary(language, tree[a].type) /\ Children(tree, a) # {}

\* The emitted nodes below node n with no accepted node between n and them.
NearestEmittedBelow(n) ==
  {j \in ChunkIds :
     /\ n \in Ancestors(tree, emitted[j])
     /\ \A a \in Ancestors(tree, emitted[j]) :
          a \in Descendants(tree, n) => a \notin accepted}

\* C22: an accepted node with no extractable name has a chunk, with no name,
\* and the accepted nodes next below it get the parent chain it got.
C22_UnnamedBoundary ==
  Done =>
    \A n \in accepted :
      extractName(language, tree, n) = Undefined =>
        \E k \in ChunkIds :
          /\ emitted[k] = n
          /\ chunks[k].boundary.name = Undefined
          /\ \A j \in NearestEmittedBelow(n) :
               chunks[j].boundary.parent = chunks[k].boundary.parent

C22_Witness ==
  /\ Done
  /\ \E k \in ChunkIds :
       /\ extractName(language, tree, emitted[k]) = Undefined
       /\ chunks[k].boundary.parent # <<>>
       /\ NearestEmittedBelow(emitted[k]) # {}

\* The nodes reached from node n by going from a node to its first child.
FirstChildChain(n) ==
  {m \in {n} \cup Descendants(tree, n) :
     \A a \in ({m} \cup Ancestors(tree, m)) \ ({n} \cup Ancestors(tree, n)) :
       firstChild(tree, parentOf(tree, a)) = a}

IdentifierChildren(m) == {c \in Children(tree, m) : tree[c].type = "identifier"}

\* The first node of the chain with a child of identifier kind, or 0.
IdentifierHolder(n) ==
  LET holders == {m \in FirstChildChain(n) : IdentifierChildren(m) # {}}
  IN  IF holders = {} THEN 0 ELSE Min(holders)

NoNameField(n) == childForFieldName(tree, n, "name") = 0

\* The nodes the descent from n leaves behind on its way to the holder, n aside.
PassedWrappers(n) ==
  (Ancestors(tree, IdentifierHolder(n)) \cup {IdentifierHolder(n)})
    \ ({n, IdentifierHolder(n)} \cup Ancestors(tree, n))

\* C25, as stated: the name of a Go node with no name field is the first
\* identifier child of the first node of its chain of first children that has
\* one, and every wrapper the descent passes on the way has a single child.
C25_SingleChildWrappers ==
  (Done /\ language = "go") =>
    \A k \in ChunkIds :
      (NoNameField(emitted[k]) /\ chunks[k].boundary.name # Undefined) =>
        /\ IdentifierHolder(emitted[k]) # 0
        /\ chunks[k].boundary.name =
             tree[Min(IdentifierChildren(IdentifierHolder(emitted[k])))].text
        /\ \A a \in PassedWrappers(emitted[k]) : Cardinality(Children(tree, a)) = 1

\* C25, amended: the descent goes from a node without identifier children to
\* its first child, however many children the node has; the name is the first
\* identifier child of the first node so reached that has one, and is absent
\* when the chain of first children ends before such a node.
C25_FirstChildDescent ==
  (Done /\ language = "go") =>
    \A k \in ChunkIds :
      NoNameField(emitted[k]) =>
        chunks[k].boundary.name =
          IF IdentifierHolder(emitted[k]) = 0 THEN Undefined
          ELSE tree[Min(IdentifierChildren(IdentifierHolder(emitted[k])))].text

C25_Witness ==
  /\ Done
  /\ language = "go"
  /\ \E k \in ChunkIds :
       /\ NoNameField(emitted[k])
       /\ chunks[k].boundary.name # Undefined
       /\ \E a \in PassedWrappers(emitted[k]) : Cardinality(Children(tree, a)) > 1

\* The number of calls of visit on a node, and of the filter.
VisitsOf(n) == Cardinality({i \in 1..Len(visited) : visited[i] = n})

FilterCallsOf(n) == Cardinality({i \in 1..Len(filterCalls) : filterCalls[i] = n})

\* C29: every call ends, without a parser or with traverse returned, which
\* takes every loop of the Go name extraction it entered to end; when traverse
\* has returned, visit has been called once on every node of the tree; and the
\* filter is never called twice on a node nor on a node whose type is not a
\* boundary type of the language.
C29_TraverseTerminates ==
  /\ <>(pc \in {"done", "no_parser"})
  /\ [](Done => \A n \in Nodes(tree) : VisitsOf(n) = 1)
  /\ [](\A n \in Nodes(tree) :
         /\ VisitsOf(n) <= 1
         /\ FilterCallsOf(n) <= 1
         /\ FilterCallsOf(n) = 1 => isBoundary(language, tree[n].type))

C29_Witness ==
  /\ Done
  /\ language = "go"
  /\ Len(visited) >= 10
  /\ filterCalls # <<>>
  /\ \E n \in Nodes(tree) :
       /\ ReachesLoop(language, tree, n)
       /\ GoTarget(tree, n) \notin {n} \cup Children(tree, n)

\* The comments right before node n: the siblings c before n with only comments
\* from c to n, each starting one row after the one before it.
PrecedingComments(t, n) ==
  LET sibs == {c \in Children(t, parentOf(t, n)) : c < n}
      Between(c) == {d \in sibs : c <= d}
  IN  {c \in sibs :
         /\ \A d \in Between(c) : IsComment(t[d].type)
         /\ \A d \in Between(c) \ {c} : t[d].row - t[previousSibling(t, d)].row = 1}

RECURSIVE Joined(_, _, _)
Joined(t, ids, sep) ==
  IF ids = <<>> THEN <<>>
  ELSE IF Len(ids) = 1 THEN text(t, ids[1])
  ELSE text(t, ids[1]) \o sep \o Joined(t, Tail(ids), sep)

RECURSIVE Terminated(_, _, _)
Terminated(t, ids, end) ==
  IF ids = <<>> THEN <<>> ELSE text(t, ids[1]) \o end \o Terminated(t, Tail(ids), end)

\* C7 as stated: the docs of a node with comments right before it are those
\* comments joined by newlines, and the chunk starts at the first of them.
C7_DocsNewlineJoined ==
  (Done /\ language \in CommentAdjacency) =>
    \A k \in ChunkIds :
      LET run == PrecedingComments(tree, emitted[k])
      IN  run # {} =>
            /\ chunks[k].boundary.docs = Joined(tree, Ascending(run), <<NewLine>>)
            /\ chunks[k].startOffset = tree[Min(run)].startIndex

\* C7 as amended: for a node that is not, in JavaScript or TypeScript, the
\* child of an export_statement, the
\* docs are those comments, each followed by a newline, and the chunk starts at
\* the first of them.
C7_DocsNewlineTerminated ==
  (Done /\ language \in CommentAdjacency) =>
    \A k \in ChunkIds :
      LET run == PrecedingComments(tree, emitted[k])
      IN  (/\ run # {}
           /\ ~(/\ language \in {"javascript", "typescript"}
                /\ tree[parentOf(tree, emitted[k])].type = "export_statement")) =>
            /\ chunks[k].boundary.docs = Terminated(tree, Ascending(run), <<NewLine>>)
            /\ chunks[k].startOffset = tree[Min(run)].startIndex

C7_Witness ==
  /\ Done
  /\ language \in CommentAdjacency
  /\ \E k \in ChunkIds :
       /\ Cardinality(PrecedingComments(tree, emitted[k])) = 2
       /\ Cardinality({c \in Children(tree, parentOf(tree, emitted[k])) :
                         c < emitted[k] /\ IsComment(tree[c].type)}) = 3
       /\ Len(chunks[k].boundary.docs) = 4

\* The node whose preceding sibling is looked at for documentation: the export
\* wrapper of the node when its direct parent is one, and else the node.
Documented(n) ==
  IF parentOf(tree, n) # 0 /\ tree[parentOf(tree, n)].type = "export_statement"
    THEN parentOf(tree, n) ELSE n

BeforeDocumented(n) ==
  {c \in Children(tree, parentOf(tree, Documented(n))) : c < Documented(n)}

\* C23: when the sibling right before the node (before its export wrapper) is
\* missing or is not a comment, the chunk has empty docs and starts at the
\* node's own start, whatever comments lie further back.
C23_NoDocsWithoutAdjacentComment ==
  (Done /\ language \in CommentAdjacency) =>
    \A k \in ChunkIds :
      (\/ BeforeDocumented(emitted[k]) = {}
       \/ ~IsComment(tree[Max(BeforeDocumented(emitted[k]))].type)) =>
        /\ chunks[k].boundary.docs = <<>>
        /\ chunks[k].startOffset = tree[emitted[k]].startIndex

C23_Witness ==
  /\ Done
  /\ language \in CommentAdjacency
  /\ \E k \in ChunkIds :
       /\ BeforeDocumented(emitted[k]) # {}
       /\ ~IsComment(tree[Max(BeforeDocumented(emitted[k]))].type)
       /\ \E c \in BeforeDocumented(emitted[k]) : IsComment(tree[c].type)

\* C24: the docs of a node directly inside an export wrapper are the comments
\* right before the wrapper, and the comments before the node inside the
\* wrapper are not looked at; the docs of any other node are the comments
\* right before the node itself.
C24_ExportWrapperCandidate ==
  (Done /\ language \in CommentAdjacency) =>
    \A k \in ChunkIds :
      LET run == PrecedingComments(tree, Documented(emitted[k]))
      IN  /\ chunks[k].boundary.docs = Terminated(tree, Ascending(run), <<NewLine>>)
          /\ chunks[k].startOffset =
               IF run = {} THEN tree[emitted[k]].startIndex ELSE tree[Min(run)].startIndex

C24_Witness ==
  /\ Done
  /\ language \in CommentAdjacency
  /\ \E k \in ChunkIds :
       /\ Documented(emitted[k]) # emitted[k]
       /\ PrecedingComments(tree, emitted[k]) # {}
       /\ chunks[k].boundary.docs # <<>>

Rejected == {n \in Nodes(tree) : \E i \in 1..Len(filterCalls) : filterCalls[i] = n} \ accepted

Emitted == {emitted[k] : k \in 1..Len(emitted)}

\* C8: a container the filter rejects gives no chunk, the boundary nodes inside
\* it are still offered to the filter and emitted when accepted, and its name is
\* in the parent chain of none of their chunks.
C8_RejectedContainer ==
  Done =>
    \A c \in Nodes(tree) :
      (isBoundary(language, tree[c].type) /\ c \notin accepted) =>
        /\ c \in Rejected
        /\ c \notin Emitted
        /\ \A d \in Descendants(tree, c) :
             /\ isBoundary(language, tree[d].type) => d \in Rejected \cup accepted
             /\ d \in accepted => d \in Emitted
        /\ \A k \in ChunkIds :
             (emitted[k] \in Descendants(tree, c)
                /\ extractName(language, tree, c) # Undefined) =>
               \A i \in 1..Len(chunks[k].boundary.parent) :
                 chunks[k].boundary.parent[i] # extractName(language, tree, c)

C8_Witness ==
  /\ Done
  /\ \E c \in Rejected :
       /\ extractName(language, tree, c) # Undefined
       /\ \E k \in ChunkIds :
            /\ emitted[k] \in Descendants(tree, c)
            /\ chunks[k].boundary.parent = <<>>

\* C9: every chunk has startOffset <= endOffset.
C9_StartBeforeEnd ==
  Done => \A k \in ChunkIds : chunks[k].startOffset <= chunks[k].endOffset

C9_Witness ==
  /\ Done
  /\ \E k \in ChunkIds :
       /\ chunks[k].boundary.docs # <<>>
       /\ chunks[k].startOffset # tree[emitted[k]].startIndex

Overlap(a, b) == a.startOffset < b.endOffset /\ b.startOffset < a.endOffset

Within(a, b) == b.startOffset <= a.startOffset /\ a.endOffset <= b.endOffset

\* C10: the ranges of two chunks overlap only when one node is nested in the
\* other, and then the range of the nested one lies within the other's.
C10_NoPartialOverlap ==
  Done =>
    \A j, k \in ChunkIds :
      j # k =>
        IF emitted[j] \in Ancestors(tree, emitted[k])
          THEN Within(chunks[k], chunks[j])
          ELSE emitted[k] \in Ancestors(tree, emitted[j]) \/ ~Overlap(chunks[j], chunks[k])

C10_Witness ==
  /\ Done
  /\ \E j, k \in ChunkIds :
       /\ parentOf(tree, emitted[j]) = parentOf(tree, emitted[k])
       /\ emitted[j] < emitted[k]
       /\ chunks[j].boundary.docs # <<>>
       /\ chunks[k].boundary.docs # <<>>
       /\ chunks[j].endOffset <= chunks[k].startOffset
  /\ \E j, k \in ChunkIds :
       /\ emitted[j] \in Ancestors(tree, emitted[k])
       /\ chunks[k].boundary.docs # <<>>

\* C18: no node gives two boundary records, also when two categories of the
\* language list its type, and there are as many chunks as accepted nodes.
C18_OneRecordPerNode ==
  /\ \A j, k \in 1..Len(emitted) : emitted[j] = emitted[k] => j = k
  /\ Len(boundaries) = Cardinality(accepted)
  /\ Done => Len(chunks) = Cardinality(accepted)

\* The categories of the language that list the type of a node.
Categories(n) ==
  {c \in DOMAIN LANGUAGE_NODE_TYPES(language) :
     tree[n].type \in LANGUAGE_NODE_TYPES(language)[c]}

C18_Witness ==
  /\ Done
  /\ Cardinality(accepted) > 1
  /\ \E n \in accepted : Cardinality(Categories(n)) > 1

\* Chunk k is the chunk of the k-th accepted node.
ChunkOf(k) ==
  /\ chunks[k].content = tree[emitted[k]].text
  /\ chunks[k].endOffset = tree[emitted[k]].endIndex
  /\ chunks[k].boundary.type = tree[emitted[k]].type

\* Node a is in the subtree of an earlier sibling of the subtree of node b.
InEarlierSibling(a, b) ==
  \E x, y \in Nodes(tree) :
    /\ parentOf(tree, x) = parentOf(tree, y)
    /\ x < y
    /\ a \in Descendants(tree, x) \cup {x}
    /\ b \in Descendants(tree, y) \cup {y}

\* C19: the chunk of a container comes before the chunks of the boundaries
\* nested in it, and the chunks of two sibling subtrees come in the order of
\* the siblings.
C19_PreOrder ==
  Done =>
    /\ Len(chunks) = Len(emitted)
    /\ \A k \in ChunkIds : ChunkOf(k)
    /\ \A j, k \in ChunkIds :
         (\/ emitted[j] \in Ancestors(tree, emitted[k])
          \/ InEarlierSibling(emitted[j], emitted[k])) => j < k

C19_Witness ==
  /\ Done
  /\ \E j, k, l \in ChunkIds :
       /\ emitted[j] \in Ancestors(tree, emitted[k])
       /\ InEarlierSibling(emitted[k], emitted[l])
       /\ j < k
       /\ k < l

\* C20: without a parser the call throws before the traversal starts: no visit
\* is pending or made, the filter is not called, and there is no boundary and
\* no chunk.
C20_NoParserNoTraversal ==
  pc = "no_parser" =>
    /\ stack = <<>>
    /\ filterCalls = <<>>
    /\ emitted = <<>>
    /\ boundaries = <<>>
    /\ chunks = <<>>

C20_Witness ==
  /\ pc = "no_parser"
  /\ \E n \in Nodes(tree) : isBoundary(language, tree[n].type)

====
